---- MODULE Spec2Model ----
(***************************************************************************)
(* The poll loop of watch_hallyu_ateez.py: conditional fetch of the        *)
(* collection page, extraction from the page and from the products.json    *)
(* endpoint, merge by handle, diff against the seen set, one Telegram      *)
(* digest, persistence of the seen set, and sleep with exponential         *)
(* backoff.  One action per blocking step of main().                       *)
(***************************************************************************)
EXTENDS Integers, Sequences, FiniteSets, TLC

VARIABLES
    INTERVAL_SEC,   \* line 13: int(os.getenv("INTERVAL_SEC", "30")), fixed at start
    pc,             \* position of main() in its loop
    seen,           \* main: seen, the in-memory set of handles
    file,           \* contents of SEEN_FILE on disk
    cache,          \* main: cache = {"etag": ..., "last_modified": ...}
    backoff,        \* main: backoff
    status,         \* status code of this cycle's page response (0: none yet / no response)
    resp,           \* fetch_once: r, kept until r.text is parsed
    products_html,  \* fetch_once: products_html (kept after the merge only by TraceJson)
    products_json,  \* fetch_once: products_json after the try/except (kept only by TraceJson)
    json_raised,    \* whether try_collection_json raised in this cycle
    products,       \* main: products (empty too when fetch_once returned None)
    changed,        \* main: changed
    lines,          \* main: lines, the lines of the digest
    sent,           \* how many texts this cycle has handed to send_telegram
    delivered,      \* outcome of send_telegram in this cycle
    err,            \* what raised in this cycle ("none" when nothing did)
    notified,       \* the handles of the items in the texts handed to send_telegram so far
    slept           \* the last time.sleep: which path called it and for how long

vars == <<INTERVAL_SEC, pc, seen, file, cache, backoff, status, resp, products_html,
          products_json, json_raised, products, changed, lines, sent,
          delivered, err, notified, slept>>

(***************************************************************************)
(* Values                                                                  *)
(***************************************************************************)
\* Python's None
None == "None"
\* a key that a JSON object does not have
Absent == "Absent"

MAX_BACKOFF_SEC == 600
\* try_collection_json: while page <= 5
LAST_PAGE == 5

\* configured base intervals: int() accepts any integer
Intervals == {-1, 30, 250, 700}

Handles == {"foo", "bar"}

\* bounds of the inputs
MaxAnchors == 2
MaxArr == 1

Min(a, b) == IF a <= b THEN a ELSE b

\* Python truthiness of a str-or-None value
Truthy(v) == v # None /\ v # ""

\* sequences over S of length at most n
SeqUpTo(S, n) == UNION {[1..k -> S] : k \in 0..n}

\* handle.replace("-", " ").title()
HumanTitle(h) == CASE h = "foo" -> "Foo" [] h = "bar" -> "Bar"

\* str.lower() on the titles of the model
Lower(t) == CASE t = "Foo" -> "foo" [] t = "FOO" -> "foo" [] t = "Bar" -> "bar"
              [] t = "BAR" -> "bar" [] OTHER -> t

\* position of a lower-case string in Python's string order
StrRank(s) == CASE s = "" -> 0 [] s = "bar" -> 1 [] s = "foo" -> 2

(***************************************************************************)
(* The seen file                                                           *)
(***************************************************************************)
Range(q) == {q[i] : i \in 1..Len(q)}

\* sorted(seen_set): the handles in ascending string order
RECURSIVE SortedHandles(_)
SortedHandles(S) ==
    IF S = {} THEN <<>>
    ELSE LET m == CHOOSE x \in S : \A y \in S : StrRank(x) <= StrRank(y)
         IN  <<m>> \o SortedHandles(S \ {m})

\* what is on disk: no file, bytes json.loads rejects, or a JSON list of handles
NoFile == [kind |-> "absent", ids |-> <<>>]
Corrupt == [kind |-> "corrupt", ids |-> <<>>]
Stored(q) == [kind |-> "list", ids |-> q]

\* lines 18-24
load_seen(f) == IF f.kind = "list" THEN Range(f.ids) ELSE {}

\* line 27: the text write_text is given
Dump(seen_set) == Stored(SortedHandles(seen_set))

(***************************************************************************)
(* Extraction from the page                                                *)
(***************************************************************************)
\* the hrefs of the model; handle is group 1 of /products/([^/?#]+), None when
\* the href has no "/products/"
Hrefs ==
    { [raw |-> "/pages/contact", form |-> "root", handle |-> None],
      [raw |-> "/products/foo", form |-> "root", handle |-> "foo"],
      [raw |-> "//hallyusuperstore.com/products/bar", form |-> "protocol", handle |-> "bar"],
      [raw |-> "https://hallyusuperstore.com/products/foo?variant=1", form |-> "absolute",
       handle |-> "foo"] }

\* the text found for an anchor by lines 59-62 ("" when there is none)
AnchorTexts == {"", "FOO"}

Anchors ==
    [href : Hrefs, text : {""}]
        \cup {a \in [href : Hrefs, text : AnchorTexts] : a.href.raw = "/products/foo"}

\* lines 49-54
AbsoluteUrl(href) ==
    CASE href.form = "protocol" -> "https:" \o href.raw
      [] href.form = "root" -> "https://hallyusuperstore.com" \o href.raw
      [] OTHER -> href.raw

\* a dict keyed by handle, as the sequence of its values in insertion order:
\* d[p["handle"]] = p keeps the position of a key the dict already has
DictPut(d, p) ==
    IF \E i \in 1..Len(d) : d[i].handle = p.handle
    THEN [i \in 1..Len(d) |-> IF d[i].handle = p.handle THEN p ELSE d[i]]
    ELSE Append(d, p)

\* lines 63-67
HtmlProduct(a) ==
    [handle |-> a.href.handle,
     title |-> IF Truthy(a.text) THEN a.text ELSE HumanTitle(a.href.handle),
     url |-> AbsoluteUrl(a.href)]

\* lines 42-68
RECURSIVE ParseLoop(_, _, _)
ParseLoop(anchors, i, prods) ==
    IF i > Len(anchors) THEN prods
    ELSE IF anchors[i].href.handle = None THEN ParseLoop(anchors, i + 1, prods)
    ELSE ParseLoop(anchors, i + 1, DictPut(prods, HtmlProduct(anchors[i])))

parse_products_from_html(html) == ParseLoop(html, 1, <<>>)

\* the page responses: a body the parser reads, or one BeautifulSoup or r.text
\* raises on
Bodies ==
    {[parses |-> TRUE, anchors |-> a] : a \in SeqUpTo(Anchors, MaxAnchors)}
        \cup {[parses |-> FALSE, anchors |-> <<>>]}

(***************************************************************************)
(* Extraction from products.json                                           *)
(***************************************************************************)
\* the objects of a "products" array: "handle" missing (None) or a handle,
\* "title" missing (Absent), null (None) or a string
JsonEntries ==
    { [handle |-> "foo", title |-> Absent],
      [handle |-> "foo", title |-> None],
      [handle |-> "bar", title |-> None],
      [handle |-> "bar", title |-> "Foo"],
      [handle |-> None, title |-> "Foo"] }

\* the answer to one page request: the request or r.json() raises, a status
\* other than 200, or a 200 with a "products" array
PageRaises == [kind |-> "raise", arr |-> <<>>]
PageNot200 == [kind |-> "status", arr |-> <<>>]
PageOk(arr) == [kind |-> "ok", arr |-> arr]

PageResponses ==
    {PageRaises, PageNot200} \cup {PageOk(arr) : arr \in SeqUpTo(JsonEntries, MaxArr)}

\* what the endpoint answers to every page after the scripted ones
TailResponses ==
    {PageRaises, PageNot200, PageOk(<<>>), PageOk(<<[handle |-> "bar", title |-> Absent]>>)}

\* the endpoint: the answer to page 1 and the answer to every later page
Endpoints == [first : PageResponses, tail : TailResponses]

PageResponse(endpoint, page) == IF page = 1 THEN endpoint.first ELSE endpoint.tail

\* lines 87-91: p.get("title", default) is the default only for a missing key
JsonProduct(p) ==
    [handle |-> p.handle,
     title |-> IF p.title = Absent THEN HumanTitle(p.handle) ELSE p.title,
     url |-> "https://hallyusuperstore.com/products/" \o p.handle]

\* lines 83-91
RECURSIVE AddPage(_, _, _)
AddPage(arr, i, out) ==
    IF i > Len(arr) THEN out
    ELSE IF ~Truthy(arr[i].handle) THEN AddPage(arr, i + 1, out)
    ELSE AddPage(arr, i + 1, DictPut(out, JsonProduct(arr[i])))

\* lines 74-92: the loop over the pages; items is the local out, which a raise
\* leaves behind unreturned
RECURSIVE PageLoop(_, _, _)
PageLoop(endpoint, page, out) ==
    IF page > LAST_PAGE THEN [raised |-> FALSE, items |-> out]
    ELSE LET r == PageResponse(endpoint, page)
         IN  IF r.kind = "raise" THEN [raised |-> TRUE, items |-> out]
             ELSE IF r.kind = "status" THEN [raised |-> FALSE, items |-> out]
             ELSE IF r.arr = <<>> THEN [raised |-> FALSE, items |-> out]
             ELSE PageLoop(endpoint, page + 1, AddPage(r.arr, 1, out))

\* lines 70-93
try_collection_json(endpoint) == PageLoop(endpoint, 1, <<>>)

\* lines 113-116 keeping what the pages before the raise gave
OptionalJson_KeepPartial(endpoint) == try_collection_json(endpoint).items

\* lines 113-116: products_json, [] when the call raised
OptionalJson(endpoint) ==
    LET r == try_collection_json(endpoint)
    IN  IF r.raised THEN <<>> ELSE r.items

\* lines 117-120
RECURSIVE MergeLoop(_, _, _)
MergeLoop(ps, i, merged) ==
    IF i > Len(ps) THEN merged
    ELSE MergeLoop(ps, i + 1, DictPut(merged, ps[i]))

\* line 118 with the two lists the other way round
Merge_JsonFirst(html_items, json_items) == MergeLoop(json_items \o html_items, 1, <<>>)

Merge(html_items, json_items) == MergeLoop(html_items \o json_items, 1, <<>>)

(***************************************************************************)
(* The response to the page request                                        *)
(***************************************************************************)
\* 0 stands for no response at all (timeout, connection error)
NoResponse == 0

\* line 106: raise_for_status raises on 4xx and 5xx
RaisesForStatus(code) == code >= 400 /\ code < 600

\* the values of an ETag / Last-Modified response header: None when the
\* response has no such header
EtagValues == {None, "", "e1", "e2"}
LastModifiedValues == {None, "m1"}

\* lines 108-109 without the "or": the header's value, there or not
UpdateToken_Overwrite(supplied, cached) == supplied

\* lines 108-109: r.headers.get(name) or cache.get(key)
UpdateToken(supplied, cached) == IF Truthy(supplied) THEN supplied ELSE cached

(***************************************************************************)
(* The digest                                                              *)
(***************************************************************************)
Handle(ps) == {ps[i].handle : i \in 1..Len(ps)}

\* line 134 without the difference: every listed handle counts as new
NewHandles_Listed(ps, seen_set) == Handle(ps)

\* line 134
NewHandles(ps, seen_set) == Handle(ps) \ seen_set

\* line 136
NewItems(ps, new_handles) == SelectSeq(ps, LAMBDA p : p.handle \in new_handles)

\* line 138: x["title"].lower() raises on a title that is not a str
KeyRaises(items) == \E i \in 1..Len(items) : items[i].title = None

SortKey(p) == StrRank(Lower(p.title))

\* line 138: sorted() is stable; insertion of p after the last item whose key
\* is not greater
RECURSIVE InsertSorted(_, _)
InsertSorted(sorted, p) ==
    IF sorted = <<>> THEN <<p>>
    ELSE IF SortKey(sorted[Len(sorted)]) <= SortKey(p) THEN Append(sorted, p)
    ELSE Append(InsertSorted(SubSeq(sorted, 1, Len(sorted) - 1), p), sorted[Len(sorted)])

RECURSIVE SortLoop(_, _, _)
SortLoop(items, i, sorted) ==
    IF i > Len(items) THEN sorted
    ELSE SortLoop(items, i + 1, InsertSorted(sorted, items[i]))

SortedByTitle(items) == SortLoop(items, 1, <<>>)

\* line 137
Heading == "Nieuwe ATEEZ producten op HallyuSuperstore:"

\* line 139
FormatLine(p) == "* " \o p.title \o " -> " \o p.url

\* lines 137-139: the lines that "\n".join makes the text of
DigestLines(items) ==
    LET s == SortedByTitle(items)
    IN  <<Heading>> \o [i \in 1..Len(s) |-> FormatLine(s[i])]

\* line 156
NextBackoff(b) == Min(b * 2, MAX_BACKOFF_SEC)

(***************************************************************************)
(* The loop of main()                                                      *)
(***************************************************************************)
\* the seen files a run can start from
InitialFiles == {NoFile, Corrupt, Dump({}), Dump({"foo"})}

NoSleep == [path |-> "none", dur |-> 0]

\* fetch_once holds no response
NoResp == [code |-> NoResponse, etag |-> None, last_modified |-> None]

\* the locals of a cycle before its fetch
FreshCycle ==
    /\ status = NoResponse
    /\ resp = NoResp
    /\ products_html = <<>>
    /\ products_json = <<>>
    /\ json_raised = FALSE
    /\ products = <<>>
    /\ changed = FALSE
    /\ lines = <<>>
    /\ sent = 0
    /\ delivered = "none"
    /\ err = "none"

\* lines 122-126
Init ==
    /\ INTERVAL_SEC \in Intervals
    /\ file \in InitialFiles
    /\ seen = load_seen(file)
    /\ cache = [etag |-> None, last_modified |-> None]
    /\ backoff = INTERVAL_SEC
    /\ pc = "fetch"
    /\ slept = NoSleep
    /\ notified = {}
    /\ FreshCycle

\* the responses to the page request: no response, a 404, a 200 or a 304 with
\* any validators, and a 300 (which requests does not follow and
\* raise_for_status does not raise on) without validators
Responses ==
    [code : {NoResponse, 404, 300}, etag : {None}, last_modified : {None}]
        \cup [code : {200, 304}, etag : EtagValues, last_modified : LastModifiedValues]

\* lines 108-109 moved above the 304 test of line 104
CacheAfter_Before304Test(c, r) ==
    IF r.code = NoResponse \/ RaisesForStatus(r.code) THEN c
    ELSE [etag |-> UpdateToken(r.etag, c.etag),
          last_modified |-> UpdateToken(r.last_modified, c.last_modified)]

\* lines 104-109: the cache after a response
CacheAfter(c, r) ==
    IF r.code = NoResponse \/ r.code = 304 \/ RaisesForStatus(r.code) THEN c
    ELSE [etag |-> UpdateToken(r.etag, c.etag),
          last_modified |-> UpdateToken(r.last_modified, c.last_modified)]

\* lines 103-109: the page request of fetch_once and its answer.  A 304
\* returns (None, False): products stays empty and changed FALSE.
Get(r) ==
    /\ pc = "fetch"
    /\ status' = r.code
    /\ cache' = CacheAfter(cache, r)
    /\ IF r.code = NoResponse \/ RaisesForStatus(r.code)
       THEN pc' = "sleep_err" /\ err' = "fetch"
       ELSE IF r.code = 304
       THEN pc' = "process" /\ UNCHANGED err
       ELSE pc' = "parse" /\ UNCHANGED err
    /\ resp' = IF pc' = "parse" THEN r ELSE NoResp
    /\ UNCHANGED <<INTERVAL_SEC, notified, seen, file, backoff, products_html, products_json,
                   json_raised, products, changed, lines, sent, delivered, slept>>

\* line 111: the primary source
Parse(body) ==
    /\ pc = "parse"
    /\ IF body.parses
       THEN /\ pc' = "json"
            /\ products_html' = parse_products_from_html(body.anchors)
            /\ UNCHANGED err
       ELSE /\ pc' = "sleep_err"
            /\ err' = "extract"
            /\ UNCHANGED products_html
    /\ resp' = NoResp
    /\ UNCHANGED <<INTERVAL_SEC, notified, seen, file, cache, backoff, status, products_json,
                   json_raised, products, changed, lines, sent, delivered, slept>>

\* lines 113-120: the optional source, the merge and the return of fetch_once.
\* With keep, the two lists that were merged stay in the state.
JsonStep(endpoint, keep) ==
    /\ pc = "json"
    /\ json_raised' = try_collection_json(endpoint).raised
    /\ products' = Merge(products_html, OptionalJson(endpoint))
    /\ changed' = TRUE
    /\ pc' = "process"
    /\ products_json' = IF keep THEN OptionalJson(endpoint) ELSE <<>>
    /\ products_html' = IF keep THEN products_html ELSE <<>>
    /\ UNCHANGED <<INTERVAL_SEC, notified, seen, file, cache, backoff, status, resp, lines,
                   sent, delivered, err, slept>>

TryJson(endpoint) == JsonStep(endpoint, FALSE)

TraceJson(endpoint) == JsonStep(endpoint, TRUE)

\* lines 132-139 and 143-146: the diff and the digest
Process ==
    /\ pc = "process"
    /\ LET new_handles == NewHandles(products, seen)
           new_items == NewItems(products, new_handles)
       IN  IF changed /\ products # <<>> /\ new_handles # {}
           THEN IF KeyRaises(new_items)
                THEN /\ pc' = "sleep_err"
                     /\ err' = "digest"
                     /\ UNCHANGED lines
                ELSE /\ pc' = "notify"
                     /\ lines' = DigestLines(new_items)
                     /\ UNCHANGED err
           ELSE /\ pc' = "sleep_ok"
                /\ UNCHANGED <<lines, err>>
    /\ products_html' = <<>>
    /\ products_json' = <<>>
    /\ UNCHANGED <<INTERVAL_SEC, notified, seen, file, cache, backoff, status, resp,
                   json_raised, products, changed, sent, delivered, slept>>

\* what send_telegram does with the text: posted, lines 35-38; the post raises
\* and is caught, lines 39-40; printed because no token is configured, lines 30-32
Deliveries == {"sent", "failed", "console"}

\* line 141 written as seen = current
SeenAfter_Assigned(seen_set, current, outcome) == current

\* line 141 made to depend on the delivery
SeenAfter_IfDelivered(seen_set, current, outcome) ==
    IF outcome = "failed" THEN seen_set ELSE seen_set \cup current

\* line 141
SeenAfter(seen_set, current, outcome) == seen_set \cup current

\* lines 140-141: send_telegram is given "\n".join(lines) and returns, whatever
\* the outcome; then seen |= current
Notify(outcome) ==
    /\ pc = "notify"
    /\ sent' = sent + 1
    /\ delivered' = outcome
    /\ seen' = SeenAfter(seen, Handle(products), outcome)
    /\ pc' = "save"
    /\ products' = <<>>
    /\ lines' = <<>>
    /\ notified' = notified \cup NewHandles(products, seen)
    /\ UNCHANGED <<INTERVAL_SEC, file, cache, backoff, status, resp, products_html,
                   products_json, json_raised, changed, err, slept>>

\* write_text: the file is written; open() raises and the file is as it was;
\* or the write raises after open() truncated the file
Writes == {"written", "refused", "torn"}

\* line 27
FileAfter(f, seen_set, result) ==
    CASE result = "written" -> Dump(seen_set)
      [] result = "refused" -> f
      [] OTHER -> Corrupt

\* line 142
Save(result) ==
    /\ pc = "save"
    /\ file' = FileAfter(file, seen, result)
    /\ IF result = "written"
       THEN pc' = "sleep_ok" /\ UNCHANGED err
       ELSE pc' = "sleep_err" /\ err' = "persist"
    /\ UNCHANGED <<INTERVAL_SEC, notified, seen, cache, backoff, status, resp, products_html,
                   products_json, json_raised, products, changed, lines, sent,
                   delivered, slept>>

\* the locals of the next cycle
NextCycle ==
    /\ status' = NoResponse
    /\ resp' = NoResp
    /\ products_html' = <<>>
    /\ products_json' = <<>>
    /\ json_raised' = FALSE
    /\ products' = <<>>
    /\ changed' = FALSE
    /\ lines' = <<>>
    /\ sent' = 0
    /\ delivered' = "none"
    /\ err' = "none"

SameCycle ==
    UNCHANGED <<status, resp, products_html, products_json, json_raised, products, changed,
                lines, sent, delivered>>

\* lines 148-149; time.sleep raises ValueError on a negative length, which
\* line 153 catches
SleepOk ==
    /\ pc = "sleep_ok"
    /\ IF INTERVAL_SEC < 0
       THEN /\ pc' = "sleep_err"
            /\ err' = "sleep"
            /\ SameCycle
            /\ UNCHANGED <<backoff, slept>>
       ELSE /\ slept' = [path |-> "ok", dur |-> INTERVAL_SEC]
            /\ backoff' = INTERVAL_SEC
            /\ pc' = "fetch"
            /\ NextCycle
    /\ UNCHANGED <<INTERVAL_SEC, notified, seen, file, cache>>

\* lines 153-156; a ValueError of time.sleep inside the handler is caught by
\* nothing and ends the process
SleepErr ==
    /\ pc = "sleep_err"
    /\ IF backoff < 0
       THEN /\ pc' = "crashed"
            /\ SameCycle
            /\ UNCHANGED <<backoff, slept, err>>
       ELSE /\ slept' = [path |-> "err", dur |-> backoff]
            /\ backoff' = NextBackoff(backoff)
            /\ pc' = "fetch"
            /\ NextCycle
    /\ UNCHANGED <<INTERVAL_SEC, notified, seen, file, cache>>

\* how the process can end: the break of line 152, a KeyboardInterrupt that
\* nothing catches, a ValueError that nothing catches, a kill
Ended == {"stopped", "unhandled_interrupt", "crashed", "killed"}

\* lines 150-152: KeyboardInterrupt inside the try block breaks out of the
\* loop; inside the handler of line 153 nothing catches it.  Raised inside
\* write_text, it leaves the file as far as write_text got.  The locals of
\* the cycle end with the loop.
Interrupt(result) ==
    /\ pc \notin Ended
    /\ pc' = IF pc = "sleep_err" THEN "unhandled_interrupt" ELSE "stopped"
    /\ file' = IF pc = "save" THEN FileAfter(file, seen, result) ELSE file
    /\ NextCycle
    /\ UNCHANGED <<INTERVAL_SEC, notified, seen, cache, backoff, slept>>

Next ==
    \/ \E r \in Responses : Get(r)
    \/ \E body \in Bodies : Parse(body)
    \/ \E endpoint \in Endpoints : TryJson(endpoint)
    \/ Process
    \/ \E outcome \in Deliveries : Notify(outcome)
    \/ \E result \in Writes : Save(result)
    \/ SleepOk
    \/ SleepErr
    \/ \E result \in Writes : Interrupt(result)

Spec == Init /\ [][Next]_vars

\* fetch_once with its two lists kept until main has the result, from one
\* configuration
InitFetch == Init /\ INTERVAL_SEC = 250 /\ file = NoFile

NextFetch ==
    \/ \E r \in Responses : Get(r)
    \/ \E body \in Bodies : Parse(body)
    \/ \E endpoint \in Endpoints : TraceJson(endpoint)
    \/ Process
    \/ \E outcome \in Deliveries : Notify(outcome)
    \/ \E result \in Writes : Save(result)
    \/ SleepOk
    \/ SleepErr

SpecFetch == InitFetch /\ [][NextFetch]_vars

\* the loop while no KeyboardInterrupt is delivered
NextLoop ==
    \/ \E r \in Responses : Get(r)
    \/ \E body \in Bodies : Parse(body)
    \/ \E endpoint \in Endpoints : TryJson(endpoint)
    \/ Process
    \/ \E outcome \in Deliveries : Notify(outcome)
    \/ \E result \in Writes : Save(result)
    \/ SleepOk
    \/ SleepErr

SpecLoop == Init /\ [][NextLoop]_vars

\* an upstream that does not change: the page lists foo and bar under one
\* ETag, products.json has no products
UpstreamEtag == "e1"

UpstreamPage ==
    [parses |-> TRUE,
     anchors |-> <<[href |-> [raw |-> "/products/foo", form |-> "root", handle |-> "foo"],
                    text |-> "FOO"],
                   [href |-> [raw |-> "//hallyusuperstore.com/products/bar",
                              form |-> "protocol", handle |-> "bar"],
                    text |-> ""]>>]

UpstreamJson == [first |-> PageOk(<<>>), tail |-> PageOk(<<>>)]

\* the handles a fetch of the upstream returns
UpstreamHandles ==
    Handle(Merge(parse_products_from_html(UpstreamPage.anchors), OptionalJson(UpstreamJson)))

\* lines 98-105: the server answers 304 to a request whose If-None-Match (the
\* cached ETag) is its ETag, else 200 with the page and the ETag
UpstreamAnswer(c) ==
    IF c.etag = UpstreamEtag
    THEN [code |-> 304, etag |-> UpstreamEtag, last_modified |-> None]
    ELSE [code |-> 200, etag |-> UpstreamEtag, last_modified |-> None]

\* lines 97-103: the conditional request gets the server's answer or none
Request == \E r \in {NoResp, UpstreamAnswer(cache)} : Get(r)

\* the loop against the unchanging upstream: a request may get no response,
\* reading the body may raise, the products.json request may raise
NextUpstream ==
    \/ Request
    \/ \E body \in {UpstreamPage, [parses |-> FALSE, anchors |-> <<>>]} : Parse(body)
    \/ \E endpoint \in {UpstreamJson, [first |-> PageRaises, tail |-> PageRaises]} :
           TryJson(endpoint)
    \/ Process
    \/ \E outcome \in Deliveries : Notify(outcome)
    \/ \E result \in Writes : Save(result)
    \/ SleepOk
    \/ SleepErr

SpecUpstream == Init /\ [][NextUpstream]_vars

\* the process is killed: nothing of it runs any more, and a write_text that
\* was under way leaves the file as far as it got (lines 26-27)
Kill(result) ==
    /\ pc \notin Ended
    /\ pc' = "killed"
    /\ file' = IF pc = "save" THEN FileAfter(file, seen, result) ELSE file
    /\ NextCycle
    /\ UNCHANGED <<INTERVAL_SEC, notified, seen, cache, backoff, slept>>

\* lines 122-127: the next process starts on the file the last one left
Start ==
    /\ pc \in Ended
    /\ pc' = "fetch"
    /\ seen' = load_seen(file)
    /\ cache' = [etag |-> None, last_modified |-> None]
    /\ backoff' = INTERVAL_SEC
    /\ slept' = NoSleep
    /\ notified' = {}
    /\ NextCycle
    /\ UNCHANGED <<INTERVAL_SEC, file>>

\* one process after the other on the same file and configuration
NextRestart ==
    \/ Next
    \/ \E result \in Writes : Kill(result)
    \/ Start

SpecRestart == Init /\ [][NextRestart]_vars

(***************************************************************************)
(* Properties                                                              *)
(***************************************************************************)
\* the handles of the items that are new to the seen set, line 134
NewNow == NewHandles(products, seen)

\* C1: no step of the loop removes a handle from the in-memory seen set: the
\* set after the step contains the set before it.
C1_SeenSetGrows == [][seen \subseteq seen']_vars

\* a cycle has added both handles to a seen set that started with fewer
C1_Witness == pc = "save" /\ seen = Handles /\ file # Dump(Handles)

\* the lines of the digest name exactly the items of new_items
ListsExactly(digest, items) ==
    /\ Len(digest) = 1 + Len(items)
    /\ digest[1] = Heading
    /\ {digest[i] : i \in 2..Len(digest)} = {FormatLine(items[i]) : i \in 1..Len(items)}

\* C2: a cycle whose fetch returned a changed payload hands at most one text
\* to send_telegram; it hands one exactly when a listed handle is not in the
\* seen set, and the text lists exactly the items whose handle is not in it.
C2_OneDigestOfNewItems ==
    /\ sent <= 1
    /\ (sent = 1 => changed)
    /\ (pc = "notify" =>
            /\ NewNow # {}
            /\ ~KeyRaises(NewItems(products, NewNow))
            /\ ListsExactly(lines, NewItems(products, NewNow)))
    /\ (changed /\ sent = 0 /\ pc \in {"sleep_ok", "sleep_err"} => NewNow = {})

\* C3: when the delivery of a digest fails, the handles of the digest's items
\* are in the seen set as soon as send_telegram returns, save_seen is the
\* next step, and the file it writes is the whole updated seen set.
C3_DeliveryFailureTolerance ==
    [][/\ (pc = "notify" /\ delivered' = "failed")
            => (NewNow # {} /\ NewNow \subseteq seen' /\ pc' = "save")
       /\ (pc = "save" /\ delivered = "failed" /\ pc' = "sleep_ok")
            => (file' = Dump(seen) /\ seen' = seen)]_vars

\* a cycle whose delivery failed has written its handles to the file
C3_Witness ==
    /\ pc = "sleep_ok"
    /\ delivered = "failed"
    /\ seen # {}
    /\ file = Dump(seen)

\* the cycle of this step is one whose page request was answered 304
NotModifiedStep == (pc = "fetch" /\ status' = 304) \/ (pc # "fetch" /\ status = 304)

\* C4: an error-path sleep lasts the base interval when the cycle before it
\* succeeded (or there was none) and otherwise min(2 * the previous sleep, 600);
\* it never lasts more than 600; a successful cycle sleeps the base interval.
C4_BackoffGrowth ==
    [][/\ (pc = "sleep_err" /\ pc' \notin Ended) =>
            /\ pc' = "fetch"
            /\ slept'.path = "err"
            /\ slept'.dur = IF slept.path = "err"
                            THEN Min(2 * slept.dur, MAX_BACKOFF_SEC)
                            ELSE INTERVAL_SEC
            /\ slept'.dur <= MAX_BACKOFF_SEC
       /\ (pc = "sleep_ok" /\ pc' # "stopped") =>
            /\ pc' = "fetch"
            /\ slept' = [path |-> "ok", dur |-> INTERVAL_SEC]]_vars

\* C5: the backoff scalar is at least the base interval and at most 600.
C5_BackoffWithinBounds == backoff >= INTERVAL_SEC /\ backoff <= MAX_BACKOFF_SEC

\* C6: no step of a cycle whose page request was answered 304 hands a text to
\* send_telegram or changes the seen set, the seen file or the cached
\* validators.
C6_NotModifiedChangesNothing ==
    [][NotModifiedStep =>
            /\ sent' = 0
            /\ pc' \notin {"notify", "save"}
            /\ seen' = seen
            /\ file' = file
            /\ cache' = cache]_vars

\* a 304 cycle has run to its sleep with validators cached and handles seen
C6_Witness ==
    /\ pc = "sleep_ok"
    /\ status = 304
    /\ cache = [etag |-> "e1", last_modified |-> "m1"]
    /\ seen # {}

\* the item of ps with handle h
ItemOf(ps, h) == CHOOSE p \in Range(ps) : p.handle = h

\* C7: the list fetch_once returns holds every handle of either source exactly
\* once, and nothing else; the item of a handle the structured endpoint has is
\* the endpoint's item, title and url, and any other is the page's.
C7_MergeIsUnionLastWins ==
    (pc = "process" /\ changed) =>
        /\ Handle(products) = Handle(products_html) \cup Handle(products_json)
        /\ Len(products) = Cardinality(Handle(products))
        /\ \A i \in 1..Len(products) :
              products[i] = IF products[i].handle \in Handle(products_json)
                            THEN ItemOf(products_json, products[i].handle)
                            ELSE ItemOf(products_html, products[i].handle)

\* both sources have one handle with different titles and urls, and the
\* endpoint has a handle the page lacks
C7_Witness ==
    /\ pc = "process"
    /\ changed
    /\ Len(products) = 2
    /\ Len(products_html) = 1
    /\ \E j \in 1..Len(products_json) :
          /\ products_json[j].handle = products_html[1].handle
          /\ products_json[j].title # products_html[1].title
          /\ products_json[j].url # products_html[1].url

\* C8: when try_collection_json raised, the optional source gives no item and
\* fetch_once returns the page's items; when the page request or the parse of
\* the page raised, fetch_once returned nothing and the cycle is on the error
\* path.
C8_OnlyPrimaryFailurePropagates ==
    /\ (pc = "process" /\ json_raised) =>
          /\ products_json = <<>>
          /\ products = products_html
          /\ changed
          /\ err = "none"
    /\ (err \in {"fetch", "extract"}) =>
          /\ pc = "sleep_err"
          /\ ~changed
          /\ products = <<>>

\* the endpoint raised and the page's two items are what fetch_once returned
C8_Witness ==
    /\ pc = "process"
    /\ json_raised
    /\ Len(products_html) = 2
    /\ products = products_html

\* C9: a cycle enters the error path only on a fetch error, a primary
\* extraction error or a persistence error; a cycle whose delivery failed or
\* whose optional source raised, and that reached the sleep of line 148,
\* sleeps the base interval and leaves the backoff scalar at the base.
C9_ErrorPropagationPolicy ==
    [][/\ (pc # "sleep_err" /\ pc' = "sleep_err") => err' \in {"fetch", "extract", "persist"}
       /\ (pc = "sleep_ok" /\ (delivered = "failed" \/ json_raised) /\ pc' # "stopped") =>
            /\ pc' = "fetch"
            /\ slept' = [path |-> "ok", dur |-> INTERVAL_SEC]
            /\ backoff' = INTERVAL_SEC]_vars

\* C10: after a response that fetch_once accepts, each cached validator is
\* the header's value when the header has one (a header that is absent or
\* empty has none) and otherwise what was cached before; no step makes a
\* non-empty cached validator empty.
C10_ValidatorsNeverErased ==
    [][/\ (pc = "fetch" /\ pc' = "parse") =>
            /\ cache'.etag =
                  IF Truthy(resp'.etag) THEN resp'.etag ELSE cache.etag
            /\ cache'.last_modified =
                  IF Truthy(resp'.last_modified) THEN resp'.last_modified
                  ELSE cache.last_modified
       /\ Truthy(cache.etag) => Truthy(cache'.etag)
       /\ Truthy(cache.last_modified) => Truthy(cache'.last_modified)]_vars

\* both validators have outlived a response that supplied neither
C10_Witness ==
    /\ pc = "parse"
    /\ resp.etag = ""
    /\ resp.last_modified = None
    /\ cache = [etag |-> "e2", last_modified |-> "m1"]

\* the status codes the specification calls a success
IsSuccess(code) == code >= 200 /\ code < 300

\* C11: a page request that is answered with a status that is neither a
\* success nor 304, or not answered at all, ends the cycle on the error path
\* with the cache validators and the seen set as they were, and hands no
\* payload on.
C11_OtherStatusIsAnError ==
    [][(pc = "fetch" /\ pc' \notin Ended /\ ~IsSuccess(status') /\ status' # 304) =>
           /\ pc' = "sleep_err"
           /\ err' = "fetch"
           /\ cache' = cache
           /\ seen' = seen]_vars

\* the seen file is absent or does not hold a list of identifiers
Unreadable(f) == f.kind \in {"absent", "corrupt"}

\* C12: started on an absent or unreadable seen file the seen set is empty,
\* and the cycle that then has a changed, non-empty listing reaches the
\* notification with a digest that lists every listed item.
C12_FirstRunNotifiesEverything ==
    /\ (pc = "fetch" /\ slept = NoSleep /\ Unreadable(file)) => seen = {}
    /\ (Unreadable(file) /\ seen = {} /\ changed /\ products # <<>>) =>
           /\ pc \in {"process", "notify"}
           /\ pc = "notify" => ListsExactly(lines, products)

\* C13: when the process is interrupted or killed while save_seen runs, the
\* file it leaves (the complete new or the complete previous contents) is one
\* from which load_seen returns every identifier the file held before.
C13_SaveIsAtomic ==
    [][(pc = "save" /\ pc' \in Ended) => load_seen(file) \subseteq load_seen(file')]_vars

\* C14: while no interrupt is delivered the process never ends, and after a
\* fetch, primary-extraction or persistence error the loop sleeps on the error
\* path and starts the next fetch, whatever the configured base interval is.
C14_ErrorsNeverEndTheLoop ==
    [][/\ pc' \notin Ended
       /\ (pc = "sleep_err" /\ err \in {"fetch", "extract", "persist"}) =>
              (pc' = "fetch" /\ slept'.path = "err")]_vars

\* the orders in which the items of a list can come out of extraction and merge
Orders(items) ==
    {q \in [1..Len(items) -> Range(items)] : Range(q) = Range(items)}

\* the items that line 135 selects in the cycle at hand
NewItemsNow == NewItems(products, NewNow)

\* C15: the item lines of a digest (of a page answered 200) are in ascending
\* case-insensitive title order, and the lines are the same for every order in
\* which the same new items come out of extraction and merge, titles equal
\* ignoring case included.
C15_DigestOrderIsDeterministic ==
    (pc = "notify" /\ status = 200) =>
        /\ \E s \in Orders(NewItemsNow) :
               /\ lines = <<Heading>> \o [i \in 1..Len(s) |-> FormatLine(s[i])]
               /\ \A i, j \in 1..Len(s) : i < j => SortKey(s[i]) <= SortKey(s[j])
        /\ \A q \in Orders(NewItemsNow) : DigestLines(q) = lines

\* C16: with a base interval that time.sleep accepts, an interrupt ends the
\* process through the clean-shutdown branch from every state it can be
\* delivered in (fetching, processing, notifying, either sleep), never through
\* an exception that nothing handles.
C16_InterruptStopsCleanly ==
    [][(INTERVAL_SEC >= 0 /\ pc \notin Ended /\ pc' \in {"stopped", "unhandled_interrupt"}) =>
           pc' = "stopped"]_vars

\* C17: whenever the loop sleeps after a cycle that completed without an
\* error, the seen set that load_seen would read from the file is the seen set
\* in memory, also when the save_seen of an earlier cycle failed.
C17_FileAgreesWithMemory ==
    pc = "sleep_ok" => load_seen(file) = seen

\* C18: against an upstream that does not change, an item that is listed and
\* was not notified is not skipped by a 'not modified' answer: a cycle is
\* answered 304 only when every listed handle is in the seen set, also after a
\* cycle that failed once its response was accepted.
C18_NoItemLostToAnError ==
    (pc = "process" /\ status = 304) => UpstreamHandles \subseteq seen

\* the handles of the listed items that have a line in the digest
MessageHandles == {products[i].handle : i \in {j \in 1..Len(products) :
                                                 FormatLine(products[j]) \in Range(lines)}}

\* C19: within one process run no handle is in more than one text handed to
\* send_telegram: the handles of a text were in none before, and all of them
\* are in the in-memory seen set when the notification is done.
C19_NoDuplicateNotification ==
    [][(pc = "notify" /\ pc' = "save") =>
           /\ MessageHandles # {}
           /\ MessageHandles \cap notified = {}
           /\ MessageHandles \subseteq seen'
           /\ notified' \subseteq seen']_vars

\* a later cycle of the run lists a handle that was notified before together
\* with a new one
C19_Witness ==
    pc = "notify" /\ Handle(products) \cap notified # {} /\ NewNow # {}

====
